---------------------------- MODULE Spec2Model ----------------------------
(***************************************************************************)
(* Model of handlers/tasks.py of misaka-danmuku-bot:                       *)
(*   - split_message_by_lines, the line-aware message splitter, as an      *)
(*     operator over texts represented as sequences of characters;        *)
(*   - tasks_command, the /tasks handler, as a state machine whose steps   *)
(*     are the handler's awaits (the API call and every reply_text).       *)
(***************************************************************************)
EXTENDS Integers, Sequences, FiniteSets, TLC

\* ------------------------------------------------------------------ bounds
\* Longest text given to split_message_by_lines in SpecSplit.
MaxLen == 7
\* Largest chunk_size given to split_message_by_lines in SpecSplit.
MaxLimit == 5
\* Most tasks in the API response handed to tasks_command in SpecTasks.
MaxTasks == 3
\* The chunk_size tasks_command splits with. The source passes none, so it is
\* the default of split_message_by_lines, 4096; the model scales it down to the
\* length of the messages that MaxTasks abstractly rendered tasks produce.
ScaledChunkSize == 12

\* ------------------------------------------------------------- characters
\* The newline character, and the other characters a text is made of.
NL == "\n"
Letters == {"a", "b"}
Chars == Letters \cup {NL}

RECURSIVE TextsOfLen(_)
TextsOfLen(n) ==
    IF n = 0 THEN {<<>>}
    ELSE {Append(t, c) : t \in TextsOfLen(n - 1), c \in Chars}

Texts == UNION {TextsOfLen(n) : n \in 0..MaxLen}
Limits == 1..MaxLimit

\* ---------------------------------------------------------- str.split('\n')
\* text.split('\n'): the maximal newline-free pieces of text, in order; a text
\* with k newlines has k + 1 pieces, the empty text has the one piece "".
RECURSIVE split_from(_, _, _)
split_from(text, k, piece) ==
    IF k > Len(text) THEN <<piece>>
    ELSE IF text[k] = NL THEN <<piece>> \o split_from(text, k + 1, <<>>)
    ELSE split_from(text, k + 1, Append(piece, text[k]))

str_split(text) == split_from(text, 1, <<>>)

\* ------------------------------------------------- split_message_by_lines
\* `if len(text) <= chunk_size` (the fast path).
fits_StrictMutant(text, chunk_size) == Len(text) < chunk_size

fits(text, chunk_size) == Len(text) <= chunk_size

\* `if len(current_chunk) + len(line) + 1 > chunk_size`.
would_exceed_NoSeparatorMutant(current_chunk, line, chunk_size) ==
    Len(current_chunk) + Len(line) > chunk_size

would_exceed_IgnoresLineMutant(current_chunk, line, chunk_size) ==
    Len(current_chunk) + 1 > chunk_size

would_exceed_OffByOneMutant(current_chunk, line, chunk_size) ==
    Len(current_chunk) + Len(line) + 1 >= chunk_size

would_exceed(current_chunk, line, chunk_size) ==
    Len(current_chunk) + Len(line) + 1 > chunk_size

\* `current_chunk += '\n' + line`.
add_line_NoNewlineMutant(current_chunk, line) == current_chunk \o line

add_line(current_chunk, line) == current_chunk \o <<NL>> \o line

\* `if current_chunk: chunks.append(current_chunk)`: Python's truth value of a
\* string is "is not empty".
flush_UnguardedMutant(chunks, current_chunk) == Append(chunks, current_chunk)

flush(chunks, current_chunk) ==
    IF current_chunk # <<>> THEN Append(chunks, current_chunk) ELSE chunks

\* One iteration of `for line in lines`, on the pair (chunks, current_chunk).
loop_body(st, line, chunk_size) ==
    IF would_exceed(st.current_chunk, line, chunk_size)
    THEN [chunks |-> flush(st.chunks, st.current_chunk), current_chunk |-> line]
    ELSE IF st.current_chunk = <<>>
         THEN [chunks |-> st.chunks, current_chunk |-> line]
         ELSE [chunks |-> st.chunks,
               current_chunk |-> add_line(st.current_chunk, line)]

RECURSIVE for_lines(_, _, _, _)
for_lines(st, lines, k, chunk_size) ==
    IF k > Len(lines) THEN st
    ELSE for_lines(loop_body(st, lines[k], chunk_size), lines, k + 1, chunk_size)

split_message_by_lines(text, chunk_size) ==
    IF fits(text, chunk_size) THEN <<text>>
    ELSE LET st == for_lines([chunks |-> <<>>, current_chunk |-> <<>>],
                             str_split(text), 1, chunk_size)
         IN  flush(st.chunks, st.current_chunk)

\* ---------------------------------------------------------- tasks_command
\* STATUS_MAPPING keys; any other status value displays as itself.
Statuses == {"in_progress", "completed"}

\* A task of the API response, reduced to what decides which lines it renders:
\* its status (a status line is rendered when it differs from the requested
\* one) and whether description and createdAt are non-empty.
Tasks == [status : Statuses, description : BOOLEAN, createdAt : BOOLEAN]

RECURSIVE TaskListsOfLen(_)
TaskListsOfLen(n) ==
    IF n = 0 THEN {<<>>}
    ELSE {Append(l, t) : l \in TaskListsOfLen(n - 1), t \in Tasks}

TaskLists == UNION {TaskListsOfLen(n) : n \in 0..MaxTasks}

\* task_info of one task: title, ID and progress lines, then the optional
\* status, description and creation-time lines, each ended by a newline. The
\* rendered content of a line is abstracted to a repeated letter.
task_info(task, status) ==
    <<"t", "t", NL, "i", NL, "p", NL>>
    \o (IF task.status # status THEN <<"s", NL>> ELSE <<>>)
    \o (IF task.description THEN <<"d", "d", "d", NL>> ELSE <<>>)
    \o (IF task.createdAt THEN <<"c", NL>> ELSE <<>>)

\* message: the header line and an empty line, then `task_info + "\n"` per
\* task.
RECURSIVE format_tasks(_, _, _)
format_tasks(tasks_data, k, status) ==
    IF k > Len(tasks_data) THEN <<>>
    ELSE task_info(tasks_data[k], status) \o <<NL>>
         \o format_tasks(tasks_data, k + 1, status)

format_message(tasks_data, status) ==
    <<"h", NL, NL>> \o format_tasks(tasks_data, 1, status)

\* `is_last_chunk = (i == total_chunks - 1)`, i counting from 0.
is_last_chunk_OffByOneMutant(i, total_chunks) == i = total_chunks

is_last_chunk(i, total_chunks) == i = total_chunks - 1

\* Where control goes when a step at position `at` of the try body raises:
\* the one `except Exception` of the handler covers the whole body.
on_exception_LoopUncoveredMutant(at) ==
    IF at = "send" THEN "propagated" ELSE "except"

on_exception(at) == "except"

\* What the handler does first, decided by the API response: the failure
\* reply, the no-task reply, or the chunk loop.
first_step(success, tasks_data) ==
    IF ~success THEN "reply_fail"
    ELSE IF Len(tasks_data) = 0 THEN "reply_empty"
    ELSE "send"

\* A call of update.message.reply_text: which reply it is, its text (kept for
\* chunk messages), whether it carries reply_markup, and whether it returned
\* (ok) or raised.
Reply(kind, txt, reply_markup, ok) ==
    [kind |-> kind, text |-> txt, reply_markup |-> reply_markup, ok |-> ok]

\* ------------------------------------------------------------------ state
VARIABLES
    text,            \* the text argument of a call of split_message_by_lines
    chunk_size,      \* its chunk_size argument
    chunks,          \* the list the call returned
    returned,        \* whether the call has returned
    pc,              \* tasks_command: where the handler is
    branch,          \* tasks_command: first_step of the API response
    split_called,    \* tasks_command: whether split_message_by_lines was called
    message_chunks,  \* tasks_command: message_chunks, empty until assigned
    i,               \* tasks_command: index of the chunk loop, from 0
    replies,         \* every reply_text call so far, in call order
    raised,          \* whether a step of the try body has raised
    caught           \* the replies made when the except clause was entered

vars == <<text, chunk_size, chunks, returned,
          pc, branch, split_called, message_chunks, i, replies, raised, caught>>

split_vars == <<text, chunk_size, chunks, returned>>
tasks_vars ==
    <<pc, branch, split_called, message_chunks, i, replies, raised, caught>>

TasksIdle ==
    /\ pc = "start"
    /\ branch = "none"
    /\ split_called = FALSE
    /\ message_chunks = <<>>
    /\ i = 0
    /\ replies = <<>>
    /\ raised = FALSE
    /\ caught = <<>>

InitSplit ==
    /\ text \in Texts
    /\ chunk_size \in Limits
    /\ chunks = <<>>
    /\ returned = FALSE
    /\ TasksIdle

CallSplit ==
    /\ ~returned
    /\ chunks' = split_message_by_lines(text, chunk_size)
    /\ returned' = TRUE
    /\ UNCHANGED <<text, chunk_size>>
    /\ UNCHANGED tasks_vars

NextSplit == CallSplit

SpecSplit == InitSplit /\ [][NextSplit]_vars

\* The handler from its entry to its first reply_text call (lines 75-160):
\* argument parsing, the API call, the checks of the response and, for a
\* non-empty task list, formatting and splitting. Any of it may raise.
Raise(at) ==
    /\ pc' = on_exception(at)
    /\ raised' = TRUE
    /\ caught' = replies'

Begin ==
    /\ pc = "start"
    /\ \/ \E status \in Statuses, success \in BOOLEAN, tasks_data \in TaskLists :
             /\ branch' = first_step(success, tasks_data)
             /\ pc' = branch'
             /\ split_called' = (branch' = "send")
             /\ message_chunks' =
                    IF branch' = "send"
                    THEN split_message_by_lines(format_message(tasks_data, status),
                                                ScaledChunkSize)
                    ELSE <<>>
             /\ UNCHANGED <<raised, caught>>
       \/ /\ replies' = replies
          /\ Raise("start")
          /\ UNCHANGED <<branch, split_called, message_chunks>>
    /\ UNCHANGED <<i, replies>>
    /\ UNCHANGED split_vars

\* `await update.message.reply_text(...)` then `return` (lines 91-94, 100-103).
ReplyEarly ==
    /\ pc \in {"reply_fail", "reply_empty"}
    /\ \/ /\ replies' = Append(replies, Reply(branch, <<>>, FALSE, TRUE))
          /\ pc' = "done"
          /\ UNCHANGED <<raised, caught>>
       \/ /\ replies' = Append(replies, Reply(branch, <<>>, FALSE, FALSE))
          /\ Raise(pc)
    /\ UNCHANGED <<branch, split_called, message_chunks, i>>
    /\ UNCHANGED split_vars

\* One iteration of `for i, chunk in enumerate(message_chunks)` (lines 157-165).
SendChunk ==
    /\ pc = "send"
    /\ i < Len(message_chunks)
    /\ LET total_chunks == Len(message_chunks)
           chunk == message_chunks[i + 1]
           reply_markup == is_last_chunk(i, total_chunks)
       IN  \/ /\ replies' = Append(replies, Reply("chunk", chunk, reply_markup, TRUE))
              /\ i' = i + 1
              /\ UNCHANGED <<pc, raised, caught>>
           \/ /\ replies' = Append(replies, Reply("chunk", chunk, reply_markup, FALSE))
              /\ Raise("send")
              /\ UNCHANGED i
    /\ UNCHANGED <<branch, split_called, message_chunks>>
    /\ UNCHANGED split_vars

\* The loop is exhausted: `logger.info(... update.effective_user.id ...)`
\* (line 168), which raises when the update has no effective user.
LogInfo ==
    /\ pc = "send"
    /\ i >= Len(message_chunks)
    /\ \/ pc' = "done" /\ UNCHANGED <<raised, caught>>
       \/ replies' = replies /\ Raise("log")
    /\ UNCHANGED <<branch, split_called, message_chunks, i, replies>>
    /\ UNCHANGED split_vars

\* The except clause (lines 170-174): log, then one generic error reply; if
\* that reply raises too, the exception leaves the handler.
ErrorReply ==
    /\ pc = "except"
    /\ \/ /\ replies' = Append(replies, Reply("error", <<>>, FALSE, TRUE))
          /\ pc' = "done"
       \/ /\ replies' = Append(replies, Reply("error", <<>>, FALSE, FALSE))
          /\ pc' = "propagated"
    /\ UNCHANGED <<branch, split_called, message_chunks, i, raised, caught>>
    /\ UNCHANGED split_vars

InitTasks ==
    /\ text = <<>>
    /\ chunk_size = ScaledChunkSize
    /\ chunks = <<>>
    /\ returned = FALSE
    /\ TasksIdle

NextTasks == Begin \/ ReplyEarly \/ SendChunk \/ LogInfo \/ ErrorReply

SpecTasks == InitTasks /\ [][NextTasks]_vars

\* ------------------------------------------------ operators of the claims
\* '\n'.join(lines[s..e]).
RECURSIVE join_lines(_, _, _)
join_lines(lines, s, e) ==
    IF s > e THEN <<>>
    ELSE IF s = e THEN lines[s]
    ELSE lines[s] \o <<NL>> \o join_lines(lines, s + 1, e)

\* The lines of every chunk, one list, in chunk order.
RECURSIVE lines_of_chunks(_, _)
lines_of_chunks(cs, k) ==
    IF k > Len(cs) THEN <<>>
    ELSE str_split(cs[k]) \o lines_of_chunks(cs, k + 1)

HasNewline(s) == \E k \in DOMAIN s : s[k] = NL

\* The chunks cs[k..] are the joins of successive, disjoint runs of whole
\* lines, each run starting at or after line `from`.
RECURSIVE runs_from(_, _, _, _)
runs_from(cs, k, from, lines) ==
    IF k > Len(cs) THEN TRUE
    ELSE \E s \in from..Len(lines) : \E e \in s..Len(lines) :
            /\ join_lines(lines, s, e) = cs[k]
            /\ runs_from(cs, k + 1, e + 1, lines)

InputLines == str_split(text)

\* C1: the lines of the returned chunks, concatenated in chunk order, are
\* exactly text.split('\n'): no input line, empty ones included, is altered,
\* dropped or duplicated.
C1_LinePreservation ==
    returned => lines_of_chunks(chunks, 1) = InputLines

\* C2: every returned chunk longer than chunk_size is one input line (it has
\* no newline) that is itself longer than chunk_size; every other chunk is at
\* most chunk_size long.
C2_SizeBound ==
    returned =>
        \A k \in DOMAIN chunks :
            \/ Len(chunks[k]) <= chunk_size
            \/ /\ ~HasNewline(chunks[k])
               /\ \E n \in DOMAIN InputLines :
                     InputLines[n] = chunks[k] /\ Len(InputLines[n]) > chunk_size

C2_Witness ==
    /\ returned
    /\ \E k \in DOMAIN chunks : Len(chunks[k]) > chunk_size
    /\ \E k \in DOMAIN chunks : HasNewline(chunks[k]) /\ Len(chunks[k]) = chunk_size

\* C3: a text no longer than chunk_size, whatever newlines it holds, comes back
\* as the one-element list [text]; the empty text gives [""].
C3_IdentityBelowLimit ==
    (returned /\ Len(text) <= chunk_size) => chunks = <<text>>

C3_Witness ==
    /\ returned
    /\ Len(text) = chunk_size
    /\ text[1] = NL
    /\ chunks = <<text>>

C5_NoEmptyChunk ==
    (returned /\ text # <<>>) => \A k \in DOMAIN chunks : chunks[k] # <<>>

C5_Witness ==
    /\ returned
    /\ ~fits(text, chunk_size)
    /\ InputLines[Len(InputLines)] = <<>>
    /\ Len(chunks) >= 1
    /\ \A k \in DOMAIN chunks : chunks[k] # <<>>

\* C6: every returned chunk is the newline-join of a contiguous run of whole
\* input lines, and the runs of successive chunks come in strictly increasing
\* input order.
C6_WholeLinesInOrder ==
    returned => runs_from(chunks, 1, 1, InputLines)

C6_Witness ==
    /\ returned
    /\ Len(chunks) >= 2
    /\ \E k \in DOMAIN chunks : HasNewline(chunks[k])
    /\ runs_from(chunks, 1, 1, InputLines)

\* C7: on the general path, for consecutive returned chunks c[k], c[k+1],
\* len(c[k]) + 1 + len(first line of c[k+1]) > chunk_size: the next line did
\* not fit the chunk that was flushed.
C7_GreedyMaximal ==
    (returned /\ ~fits(text, chunk_size)) =>
        \A k \in 1..(Len(chunks) - 1) :
            Len(chunks[k]) + 1 + Len(Head(str_split(chunks[k + 1]))) > chunk_size

C7_Witness ==
    /\ returned
    /\ Len(chunks) >= 2
    /\ Len(chunks[1]) < chunk_size
    /\ HasNewline(chunks[1])

\* C9: split_message_by_lines returns at least one chunk for every text, also
\* on the general path.
C9_AtLeastOneChunk ==
    returned => Len(chunks) >= 1

\* ------------------------------------------------- claims on tasks_command
IsChunkReply(r) == r.kind = "chunk"
ChunkReplies == SelectSeq(replies, IsChunkReply)
Finished == pc \in {"done", "propagated"}

\* C8: the chunk messages are the chunks of message_chunks, one message per
\* chunk, in order and each once; reply_markup is on the message of the last
\* chunk and on no other; when the loop ran and no send raised, every chunk was
\* sent and exactly one sent message carries the markup.
C8_LastChunkOnlyButtons ==
    /\ Len(ChunkReplies) <= Len(message_chunks)
    /\ \A k \in DOMAIN ChunkReplies :
          /\ ChunkReplies[k].text = message_chunks[k]
          /\ ChunkReplies[k].reply_markup = (k = Len(message_chunks))
    /\ (Finished /\ branch = "send" /\ \A k \in DOMAIN ChunkReplies : ChunkReplies[k].ok)
          => /\ Len(ChunkReplies) = Len(message_chunks)
             /\ Cardinality({k \in DOMAIN replies : replies[k].reply_markup}) = 1

C8_Witness ==
    /\ pc = "done"
    /\ ~raised
    /\ Len(ChunkReplies) >= 3
    /\ ChunkReplies[Len(ChunkReplies)].reply_markup
    /\ ~ChunkReplies[1].reply_markup

\* C10: when the handler has finished without raising on a response with
\* success = false or with no task, it made exactly one reply, without markup,
\* and never split; when a step raised, the replies made until then stay as
\* they were, no chunk is sent after it, and exactly one generic error reply,
\* without markup, is attempted after it.
C10_EarlyExitAndErrorPaths ==
    /\ (Finished /\ branch \in {"reply_fail", "reply_empty"} /\ ~raised)
          => /\ replies = <<Reply(branch, <<>>, FALSE, TRUE)>>
             /\ ~split_called /\ message_chunks = <<>>
    /\ (pc = "except") => replies = caught
    /\ (Finished /\ raised)
          => /\ Len(replies) = Len(caught) + 1
             /\ SubSeq(replies, 1, Len(caught)) = caught
             /\ replies[Len(replies)].kind = "error"
             /\ ~replies[Len(replies)].reply_markup
    /\ (Finished /\ ~raised)
          => \A k \in DOMAIN replies : replies[k].kind # "error"

C10_Witness ==
    /\ pc = "done"
    /\ Len(message_chunks) >= 3
    /\ Len(replies) = 3
    /\ replies[1].kind = "chunk" /\ replies[1].ok
    /\ replies[2].kind = "chunk" /\ ~replies[2].ok
    /\ replies[3].kind = "error"

=============================================================================
